---- MODULE Spec2Model ----
(***************************************************************************)
(* Model of the ai-marker marking core: token estimation and document      *)
(* chunking (app/lib/openai.ts), the retry/backoff wrapper, the chunked     *)
(* remote marking loop, the marking interface's per-file loop and the      *)
(* batch advisor (app/lib/batch-utils.ts, app/lib/document-utils.ts).       *)
(*                                                                         *)
(* A text is a sequence of one-character strings.                          *)
(***************************************************************************)
EXTENDS Integers, Sequences, FiniteSets, TLC

\* ------------------------------------------------------------------------
\* Bounds of the model
\* ------------------------------------------------------------------------
MaxLen == 7

MaxBudget == 2

\* largest retry budget handed to retryWithBackoff in the retry specification
MaxRetriesBound == 4

\* largest number of paragraphs of a document handed to markDocument
MaxParas == 11

\* largest number of files of a batch, and of files of arbitrary size in it
\* (the files after the first MaxHeavy ones are small)
MaxBatch == 30

MaxHeavy == 3

\* largest number of files handed to the marking interface
MaxFiles == 3

\* client and server together: number of files, and number of requests the
\* client may give up on (timer or network failure) while the server works
MaxRunFiles == 2

MaxFaults == 1

\* largest number of lines of a document handed to the segmenter
MaxLines == 3

\* largest number of words of an answer handed to the scorer
MaxWords == 200

\* local marking: largest number of answers of a document, and of answers of
\* arbitrary kind in it (the answers after the first MaxVaried ones are short)
MaxAnswers == 20

MaxVaried == 2

\* the forced split step by step: longest text, lowest budget below zero
\* (budgets run from -MaxDeficit to MaxBudget) and the number of slices after
\* which a run of the loops is no longer followed
MaxForceLen == 5

MaxDeficit == 1

MaxSlices == 6

\* ------------------------------------------------------------------------
\* Characters and JavaScript string primitives
\* ------------------------------------------------------------------------
NL == "\n"

SP == " "

DOT == "."

BANG == "!"

LETTER == "a"

Alphabet == {LETTER, SP, NL, DOT}

Whitespace == {SP, NL}

Terminators == {DOT, BANG, "?"}

IsWs(c) == c \in Whitespace

MaxOf(S) == CHOOSE x \in S : \A y \in S : y <= x

MinOf(S) == CHOOSE x \in S : \A y \in S : x <= y

\* Math.ceil(a / b) for a >= 0, b > 0
CeilDiv(a, b) == (a + b - 1) \div b

\* String.prototype.trim: drop the leading and trailing white space
trim(s) ==
    LET nonWs == {j \in 1..Len(s) : ~IsWs(s[j])}
    IN  IF nonWs = {} THEN <<>> ELSE SubSeq(s, MinOf(nonWs), MaxOf(nonWs))

\* Index of the last character of the match of a separator pattern that
\* starts exactly at position q of s, 0 when the pattern does not match there.
\*   "para"     /\n\s*\n/   (greedy \s*, backtracking to the last newline)
\*   "line"     /\n/
\*   "sentence" /[.!?]+/
MatchEnd(kind, s, q) ==
    CASE kind = "para" ->
            IF s[q] # NL THEN 0
            ELSE LET stop == {j \in (q+1)..(Len(s)+1) : j = Len(s)+1 \/ ~IsWs(s[j])}
                     runEnd == MinOf(stop) - 1
                     nls == {j \in (q+1)..runEnd : s[j] = NL}
                 IN  IF nls = {} THEN 0 ELSE MaxOf(nls)
      [] kind = "line" -> IF s[q] = NL THEN q ELSE 0
      [] kind = "sentence" ->
            IF s[q] \notin Terminators THEN 0
            ELSE LET stop == {j \in (q+1)..(Len(s)+1) : j = Len(s)+1 \/ s[j] \notin Terminators}
                 IN  MinOf(stop) - 1

RECURSIVE SplitFrom(_, _, _, _, _)
\* String.prototype.split(regex): p is the start of the current piece, q the
\* position the search for the next match starts at; a match closes the
\* piece and is itself dropped.
SplitFrom(kind, s, p, q, acc) ==
    LET hits == {j \in q..Len(s) : MatchEnd(kind, s, j) > 0}
    IN  IF hits = {} THEN Append(acc, SubSeq(s, p, Len(s)))
        ELSE LET e == MatchEnd(kind, s, MinOf(hits))
             IN  SplitFrom(kind, s, e + 1, e + 1, Append(acc, SubSeq(s, p, MinOf(hits) - 1)))

split(kind, s) == SplitFrom(kind, s, 1, 1, <<>>)

\* .filter(s => s.trim().length > 0)
NonBlank(ss) == SelectSeq(ss, LAMBDA x : Len(trim(x)) > 0)

\* ------------------------------------------------------------------------
\* TokenEstimator and DocumentChunker (app/lib/openai.ts)
\* ------------------------------------------------------------------------
CharsPerToken == 4

estimateTokens(s) == CeilDiv(Len(s), CharsPerToken)

\* the fallback ladder: paragraphs, else lines, else sentences
Sections(content) ==
    LET byPara == NonBlank(split("para", content))
        byLine == IF Len(byPara) = 1 THEN NonBlank(split("line", content)) ELSE byPara
    IN  IF Len(byLine) = 1 THEN NonBlank(split("sentence", content)) ELSE byLine

RECURSIVE Accumulate(_, _, _, _, _)
\* the accumulation loop: st = [chunks, currentChunk] after sections[1..k-1]
Accumulate(sections, k, chunks, currentChunk, maxTokens) ==
    IF k > Len(sections)
    THEN IF Len(trim(currentChunk)) > 0 THEN Append(chunks, trim(currentChunk)) ELSE chunks
    ELSE LET section == sections[k]
             testChunk == currentChunk \o (IF Len(currentChunk) > 0 THEN <<NL, NL>> ELSE <<>>) \o section
         IN  IF estimateTokens(testChunk) > maxTokens /\ Len(currentChunk) > 0
             THEN Accumulate(sections, k + 1, Append(chunks, trim(currentChunk)), section, maxTokens)
             ELSE Accumulate(sections, k + 1, chunks, testChunk, maxTokens)

RECURSIVE Slices(_, _, _)
\* for (i = 0; i < chunk.length; i += charLimit) push(chunk.substring(i, i + charLimit))
\* i is the 0-based offset; charLimit >= 1
Slices(chunk, i, charLimit) ==
    IF i >= Len(chunk) THEN <<>>
    ELSE <<SubSeq(chunk, i + 1, IF i + charLimit < Len(chunk) THEN i + charLimit ELSE Len(chunk))>>
         \o Slices(chunk, i + charLimit, charLimit)

RECURSIVE ForceSplit(_, _, _)
ForceSplit(cs, k, charLimit) ==
    IF k > Len(cs) THEN <<>>
    ELSE (IF Len(cs[k]) <= charLimit THEN <<cs[k]>> ELSE Slices(cs[k], 0, charLimit))
         \o ForceSplit(cs, k + 1, charLimit)

\* chunkDocument without the forced split of oversized chunks
chunkDocumentNoForce(content, maxTokens) ==
    IF estimateTokens(content) <= maxTokens THEN <<content>>
    ELSE Accumulate(Sections(content), 1, <<>>, <<>>, maxTokens)

\* chunkDocument(content, maxTokens), maxTokens >= 1
chunkDocument(content, maxTokens) ==
    IF estimateTokens(content) <= maxTokens THEN <<content>>
    ELSE LET cs == Accumulate(Sections(content), 1, <<>>, <<>>, maxTokens)
         IN  IF Len(cs) = 0 \/ \E k \in 1..Len(cs) : estimateTokens(cs[k]) > maxTokens
             THEN ForceSplit(IF Len(cs) > 0 THEN cs ELSE <<content>>, 1, maxTokens * CharsPerToken)
             ELSE cs

\* String.prototype.substring(a, b) with 0-based offsets: both are clamped to
\* 0..length and swapped when a > b
Substring(s, a, b) ==
    LET lo == IF a < b THEN a ELSE b
        hi == IF a < b THEN b ELSE a
    IN  SubSeq(s, (IF lo < 0 THEN 0 ELSE lo) + 1,
               IF hi < 0 THEN 0 ELSE IF hi > Len(s) THEN Len(s) ELSE hi)

\* the forced split before its first round: cs is the list it walks, k the
\* round of the outer loop, i the offset of the inner loop while it runs
NoForce == [source |-> <<>>, k |-> 0, i |-> 0, inner |-> FALSE, forcedChunks |-> <<>>]

ForceNew(cs) == [NoForce EXCEPT !.source = cs, !.k = 1]

\* chunkDocument up to the forced split: what it returns when it returns
\* before it (returned), else the list the forced split walks
chunkDocumentEnter(text, budget) ==
    IF estimateTokens(text) <= budget THEN [returned |-> TRUE, chunks |-> <<text>>]
    ELSE LET cs == Accumulate(Sections(text), 1, <<>>, <<>>, budget)
         IN  IF Len(cs) = 0 \/ \E k \in 1..Len(cs) : estimateTokens(cs[k]) > budget
             THEN [returned |-> FALSE, chunks |-> IF Len(cs) > 0 THEN cs ELSE <<text>>]
             ELSE [returned |-> TRUE, chunks |-> cs]

\* one round of `for (const chunk of ...)`: a chunk within charLimit is
\* pushed whole, a longer one starts the inner loop at i = 0
ForceRound(f, charLimit) ==
    IF Len(f.source[f.k]) <= charLimit
    THEN [f EXCEPT !.forcedChunks = Append(@, f.source[f.k]), !.k = @ + 1]
    ELSE [f EXCEPT !.inner = TRUE, !.i = 0]

\* the test and one round of `for (let i = 0; i < chunk.length; i += charLimit)`
ForceSlice(f, charLimit) ==
    IF f.i < Len(f.source[f.k])
    THEN [f EXCEPT !.forcedChunks = Append(@, Substring(f.source[f.k], f.i, f.i + charLimit)),
                   !.i = @ + charLimit]
    ELSE [f EXCEPT !.inner = FALSE, !.i = 0, !.k = @ + 1]

\* ------------------------------------------------------------------------
\* RetryScheduler: retryWithBackoff (app/lib/openai.ts)
\* ------------------------------------------------------------------------
DefaultMaxRetries == 3

DefaultBaseDelay == 2000

DelayCap == 30000

\* the values Math.random() * 2000 is drawn from
JitterSet == {0, 1999}

\* results of one invocation of the wrapped operation: success, status 429,
\* status 400 with code context_length_exceeded, any other failure
Outcomes == {"ok", "rate", "ctx", "other"}

RECURSIVE Pow2(_)
Pow2(n) == IF n = 0 THEN 1 ELSE 2 * Pow2(n - 1)

\* Math.max in the place of Math.min
Max2(a, b) == IF a < b THEN b ELSE a

Min2(a, b) == IF a < b THEN a ELSE b

\* a retryWithBackoff activation that has not been entered
RetryNew(maxRetries, baseDelay) ==
    [maxRetries |-> maxRetries, baseDelay |-> baseDelay, i |-> 0, pc |-> "start",
     calls |-> 0, outcomes |-> <<>>, delays |-> <<>>, err |-> "none"]

\* the loop test `i < maxRetries` followed by `await fn()`, or the throw after the loop
RetryLoopTest(r) ==
    IF r.i < r.maxRetries
    THEN [r EXCEPT !.pc = "call", !.calls = @ + 1]
    ELSE [r EXCEPT !.pc = "thrown", !.err = "MaxRetriesExceeded"]

\* entry of retryWithBackoff: i = 0 and the first loop test
retryWithBackoffEnter(r) == RetryLoopTest([r EXCEPT !.i = 0])

\* the loop body with the context-length failure handled like any other failure
retryWithBackoffSettleRetryAll(r, outcome, jitter) ==
    LET isLastAttempt == r.i = r.maxRetries - 1
        seen == [r EXCEPT !.outcomes = Append(@, outcome)]
    IN  IF outcome = "ok" THEN [seen EXCEPT !.pc = "returned"]
        ELSE IF outcome = "rate" /\ ~isLastAttempt
        THEN [seen EXCEPT !.pc = "sleep",
                          !.delays = Append(@, Min2(r.baseDelay * Pow2(r.i) + jitter, DelayCap))]
        ELSE IF isLastAttempt
        THEN [seen EXCEPT !.pc = "thrown", !.err = outcome]
        ELSE [seen EXCEPT !.pc = "sleep", !.delays = Append(@, r.baseDelay * (r.i + 1))]

\* the loop body with the same delay after every plain failure
retryWithBackoffSettleFlat(r, outcome, jitter) ==
    LET isLastAttempt == r.i = r.maxRetries - 1
        seen == [r EXCEPT !.outcomes = Append(@, outcome)]
    IN  IF outcome = "ok" THEN [seen EXCEPT !.pc = "returned"]
        ELSE IF outcome = "rate" /\ ~isLastAttempt
        THEN [seen EXCEPT !.pc = "sleep",
                          !.delays = Append(@, Min2(r.baseDelay * Pow2(r.i) + jitter, DelayCap))]
        ELSE IF outcome = "ctx"
        THEN [seen EXCEPT !.pc = "thrown", !.err = "TooLarge"]
        ELSE IF isLastAttempt
        THEN [seen EXCEPT !.pc = "thrown", !.err = outcome]
        ELSE [seen EXCEPT !.pc = "sleep", !.delays = Append(@, r.baseDelay)]

\* the body of the loop once fn() has settled with `outcome`
retryWithBackoffSettle(r, outcome, jitter) ==
    LET isLastAttempt == r.i = r.maxRetries - 1
        seen == [r EXCEPT !.outcomes = Append(@, outcome)]
    IN  IF outcome = "ok" THEN [seen EXCEPT !.pc = "returned"]
        ELSE IF outcome = "rate" /\ ~isLastAttempt
        THEN [seen EXCEPT !.pc = "sleep",
                          !.delays = Append(@, Min2(r.baseDelay * Pow2(r.i) + jitter, DelayCap))]
        ELSE IF outcome = "ctx"
        THEN [seen EXCEPT !.pc = "thrown", !.err = "TooLarge"]
        ELSE IF isLastAttempt
        THEN [seen EXCEPT !.pc = "thrown", !.err = outcome]
        ELSE [seen EXCEPT !.pc = "sleep", !.delays = Append(@, r.baseDelay * (r.i + 1))]

\* the awaited sleep is over: i++ and the loop test
retryWithBackoffResume(r) == RetryLoopTest([r EXCEPT !.i = @ + 1])

RetryDone(r) == r.pc \in {"returned", "thrown"}

\* ------------------------------------------------------------------------
\* RubricEngine, remote mode: markDocument, markSingleDocument and
\* markChunkedDocument (app/lib/openai.ts).  One activation of markDocument
\* is a record h; the remote completion call is in flight while h.rw.pc = "call";
\* h.called records that a completion call was issued.
\* ------------------------------------------------------------------------
TokenLimit == 8000

MaxChunks == 10

InterChunkDelay == 8000

\* an activation of markDocument that has not started
MarkNew(doc, baseTokens) ==
    [doc |-> doc, baseTokens |-> baseTokens, pc |-> "start", chunks |-> <<>>, i |-> 0,
     rw |-> RetryNew(DefaultMaxRetries, DefaultBaseDelay),
     chunkResults |-> <<>>, submitted |-> <<>>, called |-> FALSE, gaps |-> <<>>,
     err |-> "none"]

\* the loop test `i < chunks.length` of markChunkedDocument: submit chunk i
\* through retryWithBackoff, or return the combined results
ChunkLoopTest(h) ==
    IF h.i < Len(h.chunks)
    THEN LET r == retryWithBackoffEnter(RetryNew(DefaultMaxRetries, DefaultBaseDelay))
         IN  [h EXCEPT !.pc = "chunk", !.rw = r, !.submitted = Append(@, h.i + 1),
                       !.called = @ \/ r.pc = "call"]
    ELSE [h EXCEPT !.pc = "returned"]

\* markChunkedDocument without the limit on the number of chunks
markChunkedDocumentNoLimit(h, maxContentTokens) ==
    ChunkLoopTest([h EXCEPT !.chunks = chunkDocument(h.doc, maxContentTokens), !.i = 0])

\* markChunkedDocument up to its first suspension point
markChunkedDocument(h, maxContentTokens) ==
    LET cs == chunkDocument(h.doc, maxContentTokens)
    IN  IF Len(cs) > MaxChunks
        THEN [h EXCEPT !.chunks = cs, !.pc = "thrown", !.err = "SizeLimit"]
        ELSE ChunkLoopTest([h EXCEPT !.chunks = cs, !.i = 0])

\* markSingleDocument up to its first suspension point
markSingleDocument(h) ==
    LET r == retryWithBackoffEnter(RetryNew(DefaultMaxRetries, DefaultBaseDelay))
    IN  [h EXCEPT !.pc = "single", !.rw = r, !.called = @ \/ r.pc = "call"]

\* markDocument up to its first suspension point
markDocument(h) ==
    LET maxContentTokens == TokenLimit - h.baseTokens
        documentTokens == estimateTokens(h.doc)
    IN  IF documentTokens <= maxContentTokens
        THEN markSingleDocument(h)
        ELSE markChunkedDocument(h, maxContentTokens)

\* the caller of retryWithBackoff with a chunk failure that ends the document
AfterRetryAbort(h) ==
    IF ~RetryDone(h.rw) THEN h
    ELSE IF h.rw.pc = "thrown" THEN [h EXCEPT !.pc = "thrown", !.err = h.rw.err]
    ELSE IF h.pc = "single" THEN [h EXCEPT !.pc = "returned"]
    ELSE LET pushed == [h EXCEPT !.chunkResults =
                           Append(@, [section |-> h.i + 1, of |-> Len(h.chunks), status |-> "ok"])]
         IN  IF h.i < Len(h.chunks) - 1
             THEN [pushed EXCEPT !.pc = "gap", !.gaps = Append(@, h.i + 1)]
             ELSE ChunkLoopTest([pushed EXCEPT !.i = @ + 1])

\* what the caller of retryWithBackoff does once the activation h.rw has moved:
\* nothing while it is still running; markSingleDocument passes the result or
\* the error on; markChunkedDocument pushes the section or the placeholder,
\* awaits the inter-chunk delay after a success that is not the last chunk,
\* and goes on with the next chunk
AfterRetry(h) ==
    IF ~RetryDone(h.rw) THEN h
    ELSE IF h.pc = "single"
    THEN IF h.rw.pc = "returned" THEN [h EXCEPT !.pc = "returned"]
         ELSE [h EXCEPT !.pc = "thrown", !.err = h.rw.err]
    ELSE IF h.rw.pc = "returned"
    THEN LET pushed == [h EXCEPT !.chunkResults =
                           Append(@, [section |-> h.i + 1, of |-> Len(h.chunks), status |-> "ok"])]
         IN  IF h.i < Len(h.chunks) - 1
             THEN [pushed EXCEPT !.pc = "gap", !.gaps = Append(@, h.i + 1)]
             ELSE ChunkLoopTest([pushed EXCEPT !.i = @ + 1])
    ELSE ChunkLoopTest([h EXCEPT !.i = @ + 1,
                                     !.chunkResults =
                                        Append(@, [section |-> h.i + 1, of |-> Len(h.chunks), status |-> "error"])])

\* the remote completion call of h settles with `outcome`
OnCompletion(h, outcome, jitter) ==
    AfterRetry([h EXCEPT !.rw = retryWithBackoffSettle(h.rw, outcome, jitter)])

\* the backoff sleep of h.rw is over: the loop of retryWithBackoff goes on
\* and invokes the completion call again
OnBackoffOver(h) == AfterRetry([h EXCEPT !.rw = retryWithBackoffResume(h.rw)])

\* the inter-chunk sleep is over: i++ and the loop test
OnGapOver(h) == ChunkLoopTest([h EXCEPT !.i = @ + 1])

CallInFlight(h) == h.pc \in {"single", "chunk"} /\ h.rw.pc = "call"

InBackoff(h) == h.pc \in {"single", "chunk"} /\ h.rw.pc = "sleep"

MarkDone(h) == h.pc \in {"returned", "thrown"}

\* ------------------------------------------------------------------------
\* BatchAdvisor: getDocumentSizeCategory (app/lib/document-utils.ts) and
\* getBatchRecommendation (app/lib/batch-utils.ts).  Both read a document
\* only through extractedText.length, so a file is its text length.
\* ------------------------------------------------------------------------
TokensPerChunk == 6000

SmallTokens == 3000

MediumTokens == 6000

LargeTokens == 12000

VeryLargeTokens == 30000

\* estimateTokens of document-utils.ts, on the length of the text
estimateTokensOfLength(length) == CeilDiv(length, CharsPerToken)

\* estimateChunks with the length in characters taken for the tokens
estimateChunksOfCharacters(tokens) ==
    IF tokens <= TokensPerChunk THEN 1 ELSE CeilDiv(tokens * CharsPerToken, TokensPerChunk)

estimateChunks(tokens) ==
    IF tokens <= TokensPerChunk THEN 1 ELSE CeilDiv(tokens, TokensPerChunk)

getDocumentSizeCategory(length) ==
    LET tokens == estimateTokensOfLength(length)
        nchunks == estimateChunks(tokens)
    IN  IF tokens <= SmallTokens
        THEN [category |-> "small", estimatedTokens |-> tokens, estimatedChunks |-> 1]
        ELSE IF tokens <= MediumTokens
        THEN [category |-> "medium", estimatedTokens |-> tokens, estimatedChunks |-> 1]
        ELSE IF tokens <= LargeTokens
        THEN [category |-> "large", estimatedTokens |-> tokens, estimatedChunks |-> nchunks]
        ELSE IF tokens <= VeryLargeTokens
        THEN [category |-> "very-large", estimatedTokens |-> tokens, estimatedChunks |-> nchunks]
        ELSE [category |-> "too-large", estimatedTokens |-> tokens, estimatedChunks |-> nchunks]

RECURSIVE AnalyzeFiles(_, _, _)
\* the counting loop of getBatchRecommendation over fs[k..]
AnalyzeFiles(fs, k, c) ==
    IF k > Len(fs) THEN c
    ELSE LET sizeInfo == getDocumentSizeCategory(fs[k])
             heavier == IF c.maxChunksPerDoc > sizeInfo.estimatedChunks
                        THEN c.maxChunksPerDoc ELSE sizeInfo.estimatedChunks
         IN  AnalyzeFiles(fs, k + 1,
               IF sizeInfo.category = "too-large"
               THEN [c EXCEPT !.tooLargeCount = @ + 1]
               ELSE IF sizeInfo.category = "very-large"
               THEN [c EXCEPT !.veryLargeCount = @ + 1,
                              !.totalChunks = @ + sizeInfo.estimatedChunks,
                              !.maxChunksPerDoc = heavier]
               ELSE IF sizeInfo.category = "large"
               THEN [c EXCEPT !.largeCount = @ + 1,
                              !.totalChunks = @ + sizeInfo.estimatedChunks,
                              !.maxChunksPerDoc = heavier]
               ELSE [c EXCEPT !.totalChunks = @ + 1])

Counters(fs) ==
    AnalyzeFiles(fs, 1, [veryLargeCount |-> 0, largeCount |-> 0, tooLargeCount |-> 0,
                         totalChunks |-> 0, maxChunksPerDoc |-> 0])

\* ------------------------------------------------------------------------
\* BatchProcessor.processBatch (app/lib/batch-processor.ts).  An activation
\* is a record b: pc names the call it awaits, i is the loop variable, a
\* file is its position 1..totalFiles, markingResults and errors hold the
\* files pushed to them (0 in errors is the entry of the outer catch).
\* ------------------------------------------------------------------------
processBatchNew(n) ==
    [totalFiles |-> n, pc |-> "start", i |-> 0, status |-> "processing",
     markingResults |-> <<>>, errors |-> <<>>]

\* the loop test `i < files.length`: processIndividualFile of file i, or
\* createBatchDownload after the loop
ProcessLoopTest(b) ==
    IF b.i < b.totalFiles THEN [b EXCEPT !.pc = "processIndividualFile"]
    ELSE [b EXCEPT !.pc = "createBatchDownload"]

\* the awaited call of b settles: ok, or it rejects (failed)
processBatchSettle(b, outcome) ==
    LET file == b.i + 1
        \* the outer catch: it awaits updateBatchJob({status: 'failed'})
        caught == [b EXCEPT !.pc = "markFailed"]
    IN  CASE b.pc = "createBatchJob" ->
               IF outcome = "ok" THEN ProcessLoopTest([b EXCEPT !.i = 0])
               ELSE [b EXCEPT !.pc = "thrown", !.status = "error", !.errors = Append(@, 0)]
          [] b.pc = "processIndividualFile" ->
               IF outcome = "ok"
               THEN [b EXCEPT !.markingResults = Append(@, file), !.pc = "saveMarkingResult"]
               ELSE [b EXCEPT !.errors = Append(@, file), !.pc = "updateBatchJob"]
          [] b.pc = "saveMarkingResult" ->
               IF outcome = "ok" THEN [b EXCEPT !.pc = "updateBatchJob"]
               ELSE [b EXCEPT !.errors = Append(@, file), !.pc = "updateBatchJob"]
          [] b.pc = "updateBatchJob" ->
               IF outcome = "ok" THEN ProcessLoopTest([b EXCEPT !.i = @ + 1]) ELSE caught
          [] b.pc = "createBatchDownload" ->
               IF outcome = "ok" THEN [b EXCEPT !.pc = "markCompleted"] ELSE caught
          [] b.pc = "markCompleted" ->
               IF outcome = "ok" THEN [b EXCEPT !.pc = "returned", !.status = "completed"]
               ELSE caught
          [] b.pc = "markFailed" ->
               IF outcome = "ok"
               THEN [b EXCEPT !.pc = "thrown", !.status = "error", !.errors = Append(@, 0)]
               ELSE [b EXCEPT !.pc = "thrown"]

\* an activation of splitIntoBatches that has not been entered: i is the
\* loop variable, batches the list built so far
NoBatching == [pc |-> "idle", i |-> 0, batches |-> <<>>]

\* the test and one round of `for (let i = 0; i < items.length; i += batchSize)`
splitIntoBatchesRound(t, items, batchSize) ==
    IF t.i < Len(items)
    THEN [t EXCEPT !.batches = Append(@, SubSeq(items, t.i + 1, Min2(t.i + batchSize, Len(items)))),
                   !.i = @ + batchSize]
    ELSE [t EXCEPT !.pc = "returned"]

Plan(size, batches, risk, minutes) ==
    [recommendedBatchSize |-> size, totalBatches |-> batches, riskLevel |-> risk,
     minutesPerBatch |-> minutes]

\* getBatchRecommendation with the two file-count rows in the other order
getBatchRecommendationSwapped(fs) ==
    LET c == Counters(fs)
        n == Len(fs)
        sizeRisk ==
            IF c.maxChunksPerDoc > 10 THEN <<1, "high">>
            ELSE IF c.veryLargeCount > 0
            THEN IF c.veryLargeCount >= 3 THEN <<2, "high">> ELSE <<3, "medium">>
            ELSE IF c.largeCount > 0
            THEN IF c.totalChunks > 30 THEN <<3, "medium">> ELSE <<5, "low">>
            ELSE IF n > 10 THEN <<8, "low">>
            ELSE IF n > 20 THEN <<10, "medium">>
            ELSE <<n, "low">>
        avgTimePerFile ==
            IF c.veryLargeCount > 0 THEN 8 ELSE IF c.largeCount > 0 THEN 4 ELSE 1
    IN  IF n = 0 THEN Plan(0, 0, "low", 0)
        ELSE IF c.tooLargeCount > 0 THEN Plan(0, 0, "high", -1)
        ELSE Plan(sizeRisk[1], CeilDiv(n, sizeRisk[1]), sizeRisk[2], avgTimePerFile * sizeRisk[1])

\* getBatchRecommendation(files); minutesPerBatch is the number printed in
\* estimatedTimePerBatch, -1 for 'Cannot process'
getBatchRecommendation(fs) ==
    LET c == Counters(fs)
        n == Len(fs)
        sizeRisk ==
            IF c.maxChunksPerDoc > 10 THEN <<1, "high">>
            ELSE IF c.veryLargeCount > 0
            THEN IF c.veryLargeCount >= 3 THEN <<2, "high">> ELSE <<3, "medium">>
            ELSE IF c.largeCount > 0
            THEN IF c.totalChunks > 30 THEN <<3, "medium">> ELSE <<5, "low">>
            ELSE IF n > 20 THEN <<10, "medium">>
            ELSE IF n > 10 THEN <<8, "low">>
            ELSE <<n, "low">>
        avgTimePerFile ==
            IF c.veryLargeCount > 0 THEN 8 ELSE IF c.largeCount > 0 THEN 4 ELSE 1
    IN  IF n = 0 THEN Plan(0, 0, "low", 0)
        ELSE IF c.tooLargeCount > 0 THEN Plan(0, 0, "high", -1)
        ELSE Plan(sizeRisk[1], CeilDiv(n, sizeRisk[1]), sizeRisk[2], avgTimePerFile * sizeRisk[1])

\* ------------------------------------------------------------------------
\* The marking interface: startMarking (app/lib/types.ts, the component with
\* the local/AI switch, the per-file abort timer and the client-side retry
\* loop; mode "direct" is the loop of app/components/MarkingInterface.tsx,
\* one fetch per file with no timer and no retry).  The activation of
\* startMarking is a record u; file f is the f-th element of files, u.i is
\* the 0-based loop index.
\*   u.timers[f]   "none" | "armed" | "cleared" | "fired" (controller f aborted)
\*   u.requests    every fetch('/api/openai') issued, in order: its file, and
\*                 whether it was sent (a fetch whose signal is already aborted
\*                 is rejected without being sent)
\*   u.waits       the retryCount after which a backoff wait was awaited, for
\*                 the current file
\* ------------------------------------------------------------------------
ClientMaxRetries == 3

\* results of a fetch: a 2xx response, a 429 response, another HTTP status,
\* a rejected fetch (network failure), a fetch rejected by the abort signal
FetchOutcomes == {"ok", "429", "httpError", "networkError", "abort"}

StartMarkingNew(docs, mode) ==
    [n |-> Len(docs), docs |-> docs, mode |-> mode, pc |-> "idle", i |-> 0, retryCount |-> 0,
     markingResults |-> <<>>, timers |-> [f \in 1..Len(docs) |-> "none"],
     requests |-> <<>>, waits |-> <<>>, handed |-> <<>>, completed |-> FALSE]

Attempts(u, f) == Cardinality({r \in 1..Len(u.requests) : u.requests[r].file = f})

\* await fetch('/api/openai', {..., signal: controller.signal})
IssueFetch(u) ==
    [u EXCEPT !.pc = "fetchAI",
              !.requests = Append(@, [file |-> u.i + 1, sent |-> u.timers[u.i + 1] # "fired"])]

\* the for loop of startMarking at `i < files.length`: arm the timer and
\* start the file, or hand the results to onMarkingComplete
FileLoopTest(u) ==
    IF u.i < u.n
    THEN LET armed == [u EXCEPT !.timers[u.i + 1] = "armed", !.retryCount = 0, !.waits = <<>>]
         IN  IF u.mode = "local" THEN [armed EXCEPT !.pc = "fetchLocal"]
             ELSE IF u.mode = "direct" THEN [u EXCEPT !.pc = "fetchDirect"]
             ELSE IssueFetch(armed)
    ELSE [u EXCEPT !.pc = "completed", !.handed = u.markingResults, !.completed = TRUE]

\* the end of the loop body: the 10 s delay unless this was the last file
AfterFile(u) ==
    IF u.i < u.n - 1 THEN [u EXCEPT !.pc = "fileDelay"] ELSE FileLoopTest([u EXCEPT !.i = @ + 1])

\* an outer catch that ends the run at the failed file
FileErrorEndsRun(u, reason) ==
    [u EXCEPT !.timers[u.i + 1] = IF @ = "armed" THEN "cleared" ELSE @,
              !.pc = "completed", !.handed = u.markingResults, !.completed = TRUE]

\* the outer catch: clearTimeout and the error result
FileError(u, reason) ==
    AfterFile([u EXCEPT !.timers[u.i + 1] = IF @ = "armed" THEN "cleared" ELSE @,
                        !.markingResults = Append(@, [file |-> u.i + 1, status |-> "error",
                                                      reason |-> reason,
                                                      attempts |-> Attempts(u, u.i + 1)])])

\* markingResults.push(result); clear tells whether clearTimeout ran before
FileMarked(u, clear) ==
    AfterFile([u EXCEPT !.timers[u.i + 1] = IF clear /\ @ = "armed" THEN "cleared" ELSE @,
                        !.markingResults = Append(@, [file |-> u.i + 1, status |-> "ok",
                                                      reason |-> "none",
                                                      attempts |-> Attempts(u, u.i + 1)])])

\* `while (retryCount <= maxRetries)` of the AI branch
ClientLoopTest(u) ==
    IF u.retryCount <= ClientMaxRetries THEN IssueFetch(u) ELSE FileError(u, "noResponse")

\* startMarking is called: the loop starts at i = 0
startMarking(u) == FileLoopTest([u EXCEPT !.i = 0])

\* the awaited fetch of the current file settles
OnFetchSettled(u, outcome) ==
    IF u.pc \in {"fetchLocal", "fetchDirect"}
    THEN IF outcome = "ok" THEN FileMarked(u, FALSE) ELSE FileError(u, "failed")
    ELSE IF outcome = "ok" THEN FileMarked(u, TRUE)
    ELSE IF outcome = "429"
    THEN [u EXCEPT !.pc = "rateWait", !.waits = Append(@, u.retryCount)]
    ELSE IF outcome = "abort" THEN FileError(u, "timeout")
    ELSE IF u.retryCount = ClientMaxRetries THEN FileError(u, "failed")
    ELSE [u EXCEPT !.pc = "netWait", !.waits = Append(@, u.retryCount)]

\* the backoff wait of the retry loop is over: retryCount++ and the loop test
OnWaitOver(u) == ClientLoopTest([u EXCEPT !.retryCount = @ + 1])

\* the 10 s delay between files is over: i++ and the loop test
OnFileDelayOver(u) == FileLoopTest([u EXCEPT !.i = @ + 1])

\* the 2-minute timer of file f fires: controller.abort()
OnTimeout(u, f) == [u EXCEPT !.timers[f] = "fired"]

\* the fetch of the current file listens to the controller of that file
FetchAborted(u) == u.pc = "fetchAI" /\ u.timers[u.i + 1] = "fired"

\* ------------------------------------------------------------------------
\* The marking route: POST /api/openai (app/api/openai/route.ts).  A request
\* without documentContent is answered 400, a marking that throws 500; the
\* API key is taken to be configured.
\* ------------------------------------------------------------------------
routePOST(h) ==
    IF Len(h.doc) = 0 THEN [h EXCEPT !.pc = "thrown", !.err = "Validation"] ELSE markDocument(h)

\* ------------------------------------------------------------------------
\* QuestionSegmenter: detectQuestions (app/lib/improved-marker.ts).  The
\* texts of the model are written in lower case over Letters, Digits, white
\* space and punctuation, so toLowerCase and the i flag change nothing.
\* ------------------------------------------------------------------------
Digits == {"1", "2"}

Letters == {"a", "c", "e", "i", "k", "n", "o", "q", "s", "t", "u"}

\* minimum length of the trimmed content of a unit, and of a fallback section
MinContentLength == 10

\* a paragraph of exactly 50 characters opening a section as well
MinSectionLengthInclusive == 50 - 1

MinSectionLength == 50

RECURSIVE SkipWs(_, _)
\* \s* from position q: the first position at or after q that holds no white space
SkipWs(s, q) == IF q > Len(s) \/ ~IsWs(s[q]) THEN q ELSE SkipWs(s, q + 1)

RECURSIVE DigitsEnd(_, _)
\* \d+ from position q: the last position of the digit run, q - 1 when there is none
DigitsEnd(s, q) == IF q > Len(s) \/ s[q] \notin Digits THEN q - 1 ELSE DigitsEnd(s, q + 1)

\* the positions at which a match of \d+(?:\.\d+)? that starts at q can end
NumberEnds(s, q) ==
    LET d1 == DigitsEnd(s, q)
        d2 == IF d1 >= q /\ d1 + 2 <= Len(s) /\ s[d1 + 1] = DOT THEN DigitsEnd(s, d1 + 2) ELSE 0
    IN  (q..d1) \cup ((d1 + 2)..d2)

WordAt(s, q, w) == q + Len(w) - 1 <= Len(s) /\ SubSeq(s, q, q + Len(w) - 1) = w

\* String.prototype.includes
Includes(s, w) == \E p \in 1..(Len(s) - Len(w) + 1) : s[p] = w[1] /\ WordAt(s, p, w)

\* the eight patterns in the order of the source, each after its common
\* head (?:^|\n)\s* : the shape of the rest and the words it names
Patterns ==
    LET task == <<"t", "a", "s", "k">>
        section == <<"s", "e", "c", "t", "i", "o", "n">>
        question == <<"q", "u", "e", "s", "t", "i", "o", "n">>
    IN  << [form |-> "wordFirst", words |-> {task}],
           [form |-> "numberFirst", words |-> {task}],
           [form |-> "wordFirst", words |-> {section}],
           [form |-> "numberFirst", words |-> {section}],
           [form |-> "wordFirst", words |-> {question, <<"q">>}],
           [form |-> "numberFirst", words |-> {question}],
           [form |-> "numbered", words |-> {}],
           [form |-> "lettered", words |-> {}] >>

NoMatch == [end |-> 0, number |-> <<>>]

\* the rest of pattern pat matched from position q: the last position of the
\* match and the captured item number, NoMatch when it does not match there.
\* The longest item number that lets the rest match is the one the greedy
\* quantifiers settle on.
MarkerMatch(pat, s, q) ==
    LET n == Len(s)
        \* \s*[\.\)] and then \s+ (numbered, lettered) or \s*word (numberFirst)
        TailEnd(e) ==
            LET q3 == SkipWs(s, e + 1)
            IN  IF q3 > n \/ s[q3] \notin {DOT, ")"} THEN 0
                ELSE IF pat.form = "numberFirst"
                THEN LET q4 == SkipWs(s, q3 + 1)
                         ws == {w \in pat.words : WordAt(s, q4, w)}
                     IN  IF ws = {} THEN 0 ELSE q4 + Len(CHOOSE w \in ws : TRUE) - 1
                ELSE IF q3 + 1 <= n /\ IsWs(s[q3 + 1]) THEN SkipWs(s, q3 + 1) - 1 ELSE 0
        \* word\s*number[:\.\s] for the word w
        NumberAfter(w) ==
            LET q2 == SkipWs(s, q + Len(w))
            IN  {<<q2, e>> : e \in {x \in NumberEnds(s, q2) :
                                      x + 1 <= n /\ (s[x + 1] \in {":", DOT} \/ IsWs(s[x + 1]))}}
        wordHits == UNION {NumberAfter(w) : w \in {x \in pat.words : WordAt(s, q, x)}}
        numberHits == {e \in NumberEnds(s, q) : TailEnd(e) > 0}
    IN  CASE pat.form = "wordFirst" ->
               IF wordHits = {} THEN NoMatch
               ELSE LET h == CHOOSE x \in wordHits : \A y \in wordHits : y[2] <= x[2]
                    IN  [end |-> h[2] + 1, number |-> SubSeq(s, h[1], h[2])]
          [] pat.form = "lettered" ->
               IF q <= n /\ s[q] \in Letters /\ TailEnd(q) > 0
               THEN [end |-> TailEnd(q), number |-> <<s[q]>>] ELSE NoMatch
          [] OTHER ->
               IF numberHits = {} THEN NoMatch
               ELSE LET e == MaxOf(numberHits)
                    IN  [end |-> TailEnd(e), number |-> SubSeq(s, q, e)]

\* pattern pat matched at position p: its head is the start of a line or a
\* newline, followed by the white space before the marker
MarkerAt(pat, s, p) ==
    IF p = 1 \/ s[p - 1] = NL \/ s[p] = NL THEN MarkerMatch(pat, s, SkipWs(s, p)) ELSE NoMatch

RECURSIVE MarkerScan(_, _, _)
\* while ((match = pattern.exec(content)) !== null) for pattern k: the
\* leftmost match at or after `from`, then on from the end of that match
MarkerScan(k, s, from) ==
    LET \* ms[p] is the match of the pattern at position p
        Leftmost(ms) ==
            LET hits == {p \in DOMAIN ms : ms[p].end > 0}
            IN  IF hits = {} THEN <<>>
                ELSE <<[number |-> ms[MinOf(hits)].number, index |-> MinOf(hits) - 1,
                        type |-> IF k <= 4 THEN "task/section"
                                 ELSE IF k <= 6 THEN "question" ELSE "numbered"]>>
                     \o MarkerScan(k, s, ms[MinOf(hits)].end + 1)
    IN  Leftmost([p \in from..Len(s) |-> MarkerAt(Patterns[k], s, p)])

\* the sequences of ss put end to end
RECURSIVE Concat(_)
Concat(ss) == IF Len(ss) = 0 THEN <<>> ELSE Head(ss) \o Concat(Tail(ss))

RECURSIVE SortByIndex(_)
\* foundItems.sort((a, b) => a.index - b.index), a stable sort
SortByIndex(items) ==
    IF Len(items) = 0 THEN <<>>
    ELSE LET lo == MinOf({items[j].index : j \in 1..Len(items)})
             first == MinOf({j \in 1..Len(items) : items[j].index = lo})
         IN  <<items[first]>>
             \o SortByIndex(SubSeq(items, 1, first - 1) \o SubSeq(items, first + 1, Len(items)))

\* TOPIC_KEYWORDS in the order of the source: the number of keywords of each
\* topic and those of them that can be written over the alphabet of the model
\* (no text of the model contains any of the others)
TOPIC_KEYWORDS ==
    LET none == {}
    IN  << [topic |-> "Cyber Security", size |-> 10, spelled |-> none],
           [topic |-> "Safety Hazards", size |-> 9, spelled |-> none],
           [topic |-> "Storage Devices", size |-> 11, spelled |-> none],
           [topic |-> "Computer Components", size |-> 9, spelled |-> none],
           [topic |-> "Basic Terminologies", size |-> 7, spelled |-> none],
           [topic |-> "Memory Types", size |-> 9, spelled |-> none],
           [topic |-> "BIOS", size |-> 8, spelled |-> none],
           [topic |-> "Hard Disk Drive", size |-> 8, spelled |-> none],
           [topic |-> "Hardware Performance", size |-> 7, spelled |-> none],
           [topic |-> "AC-DC Converters", size |-> 8, spelled |-> {<<"a", "c">>}],
           [topic |-> "Internet Collaboration", size |-> 7, spelled |-> none],
           [topic |-> "Server Networks", size |-> 7,
            spelled |-> {<<"c", "o", "n", "n", "e", "c", "t", "i", "o", "n">>}],
           [topic |-> "Input Output Devices", size |-> 8, spelled |-> none],
           [topic |-> "Printer Management", size |-> 7, spelled |-> {<<"q", "u", "e", "u", "e">>}],
           [topic |-> "Mobile Devices", size |-> 7, spelled |-> none],
           [topic |-> "Preventative Maintenance", size |-> 7, spelled |-> none],
           [topic |-> "Troubleshooting", size |-> 8, spelled |-> {<<"i", "s", "s", "u", "e">>}],
           [topic |-> "Operating Systems", size |-> 7, spelled |-> {<<"o", "s">>}],
           [topic |-> "File Management", size |-> 8, spelled |-> none],
           [topic |-> "Software Utilities", size |-> 7, spelled |-> none],
           [topic |-> "System Restore", size |-> 7, spelled |-> none],
           [topic |-> "Recovery Processes", size |-> 7, spelled |-> none] >>

GeneralTopic == "General Topic"

\* the number of keywords of row t that content includes
KeywordMatches(content, t) ==
    Cardinality({w \in TOPIC_KEYWORDS[t].spelled : Includes(content, w)})

\* the first topic with the highest number of matches, if any keyword matches
detectTopicFromContent(content) ==
    LET rows == DOMAIN TOPIC_KEYWORDS
        maxScore == MaxOf({KeywordMatches(content, t) : t \in rows})
    IN  IF maxScore = 0 THEN GeneralTopic
        ELSE TOPIC_KEYWORDS[MinOf({t \in rows : KeywordMatches(content, t) = maxScore})].topic

\* content.split(/\s+/).length: one more than the number of white-space runs
WordCount(content) ==
    1 + Cardinality({j \in 1..Len(content) :
                       IsWs(content[j]) /\ (j = 1 \/ ~IsWs(content[j - 1]))})

\* estimateMarksFromContent with one mark for the shortest answers
estimateMarksFromContentSingle(content) ==
    LET wordCount == WordCount(content)
    IN  IF wordCount < 20 THEN 1 ELSE IF wordCount < 50 THEN 3 ELSE 5

estimateMarksFromContent(content) ==
    LET wordCount == WordCount(content)
    IN  IF wordCount < 20 THEN 2 ELSE IF wordCount < 50 THEN 3 ELSE 5

detectQuestions(content) ==
    LET \* marks and topic are taken from `read`, the content is stored trimmed
        Unit(number, read, questionContent) ==
            [number |-> number, content |-> questionContent,
             estimatedMarks |-> estimateMarksFromContent(read),
             topic |-> detectTopicFromContent(read)]
        displayNumber(item) ==
            [prefix |-> IF item.type = "task/section" THEN "Task"
                        ELSE IF item.type = "question" THEN "Q" ELSE "",
             number |-> item.number, ordinal |-> 0]
        \* one round of the forEach over foundItems: an index met before is
        \* skipped, and so is content of MinContentLength characters or fewer
        Item(foundItems, k, questionContent) ==
            IF (\E j \in 1..(k - 1) : foundItems[j].index = foundItems[k].index)
               \/ Len(questionContent) <= MinContentLength
            THEN <<>>
            ELSE <<Unit(displayNumber(foundItems[k]), questionContent, questionContent)>>
        RECURSIVE Items(_, _)
        \* the content of an item runs to the index of the next found item
        Items(foundItems, k) ==
            IF k > Len(foundItems) THEN <<>>
            ELSE Item(foundItems, k,
                      trim(SubSeq(content, foundItems[k].index + 1,
                                  IF k < Len(foundItems) THEN foundItems[k + 1].index
                                  ELSE Len(content))))
                 \o Items(foundItems, k + 1)
        FallbackUnits(sections) ==
            [index \in 1..Len(sections) |->
                Unit([prefix |-> "Section", number |-> <<>>, ordinal |-> index],
                     sections[index], trim(sections[index]))]
        Questions(questions) ==
            IF Len(questions) = 0
            THEN FallbackUnits(SelectSeq(split("para", content),
                                         LAMBDA x : Len(trim(x)) > MinSectionLength))
            ELSE questions
    IN  Questions(Items(SortByIndex(Concat([k \in DOMAIN Patterns |-> MarkerScan(k, content, 1)])), 1))

\* ------------------------------------------------------------------------
\* AnswerQualityScorer: analyzeAnswerQuality (app/lib/improved-marker.ts).
\* A score is the fraction num / den with den = ScoreUnit * (number of
\* keywords of the topic, 1 when it has none); every sum and product of the
\* source is exact in these units.
\* ------------------------------------------------------------------------
ScoreUnit == 1000000

explanationWords == {<<"s", "i", "n", "c", "e">>}

exampleWords == {<<"i", ".", "e", ".">>}

analyzeAnswerQuality(content, topic) ==
    LET rows == {t \in DOMAIN TOPIC_KEYWORDS : TOPIC_KEYWORDS[t].topic = topic}
        n == IF rows = {} THEN 0 ELSE TOPIC_KEYWORDS[CHOOSE t \in rows : TRUE].size
        keywordMatches == IF rows = {} THEN 0 ELSE KeywordMatches(content, CHOOSE t \in rows : TRUE)
        wordCount == WordCount(content)
        unit == IF n > 0 THEN n ELSE 1
        \* in hundredths: base, length, explanation, example and attempt boosts
        boosts == 85 + (IF wordCount >= 40 THEN 6 ELSE 0) + (IF wordCount >= 80 THEN 8 ELSE 0)
                     + (IF wordCount >= 120 THEN 4 ELSE 0)
                     + (IF \E w \in explanationWords : Includes(content, w) THEN 9 ELSE 0)
                     + (IF \E w \in exampleWords : Includes(content, w) THEN 6 ELSE 0)
                     + (IF wordCount >= 15 THEN 4 ELSE 0)
        \* keywordCoverage * 0.30 is 30 * keywordMatches / n hundredths
        sum == boosts * unit + 30 * keywordMatches
        short == IF wordCount < 10 THEN 65 ELSE IF wordCount < 20 THEN 95 ELSE 100
        irrelevant == IF keywordMatches = 0 /\ n > 0 THEN 75 ELSE 100
        den == ScoreUnit * unit
        num == Min2(sum * short * irrelevant, (95 * den) \div 100)
    IN  IF Len(trim(content)) < 10
        THEN [quality |-> "missing", num |-> 0, den |-> den]
        ELSE [quality |-> IF num >= 85 * (den \div 100) THEN "excellent"
                          ELSE IF num >= 75 * (den \div 100) THEN "good"
                          ELSE IF num >= 60 * (den \div 100) THEN "satisfactory"
                          ELSE IF num >= 40 * (den \div 100) THEN "poor"
                          ELSE "missing",
              num |-> num, den |-> den]

\* ------------------------------------------------------------------------
\* RubricEngine, local mode: generateImprovedMarkingReport
\* (app/lib/improved-marker.ts) and POST /api/local-mark
\* ------------------------------------------------------------------------
NaN == "NaN"

\* the reduced fractions a / b with b <= 300 and 100 * a / b half-way between
\* two integers for which the double product (a / b) * 100 falls just below
\* the half (23 / 40 * 100 is 57.49999999999999): Math.round rounds them down
DoubleBelowHalf == {<<23, 40>>, <<29, 200>>, <<57, 200>>, <<113, 200>>}

\* Math.round((totalMarksAwarded / totalMarksAvailable) * 100) for
\* 0 <= awarded <= available <= 300; 0 / 0 is NaN
Percentage(awarded, available) ==
    IF available = 0 THEN NaN
    ELSE IF \E r \in DoubleBelowHalf : awarded * r[2] = available * r[1]
    THEN (100 * awarded) \div available
    ELSE (200 * awarded + available) \div (2 * available)

\* the letter grade of a percentage that is a number
gradeOf(percentage) ==
    IF percentage >= 90 THEN "A+ (Outstanding)"
    ELSE IF percentage >= 80 THEN "A (Excellent)"
    ELSE IF percentage >= 70 THEN "B (Good)"
    ELSE IF percentage >= 60 THEN "C (Satisfactory)"
    ELSE IF percentage >= 50 THEN "D (Pass)"
    ELSE "F (Fail)"

RECURSIVE SumOf(_, _)
\* reduce((sum, q) => sum + q[field], 0)
SumOf(qs, field) == IF Len(qs) = 0 THEN 0 ELSE Head(qs)[field] + SumOf(Tail(qs), field)

generateImprovedMarkingReport(content) ==
    LET Analysed(question, analysis) ==
            [questionNumber |-> question.number, topic |-> question.topic,
             maxMarks |-> question.estimatedMarks,
             \* Math.round(question.estimatedMarks * analysis.score)
             awardedMarks |-> (2 * question.estimatedMarks * analysis.num + analysis.den)
                                 \div (2 * analysis.den),
             hasAnswer |-> analysis.quality # "missing",
             contentQuality |-> analysis.quality,
             num |-> analysis.num, den |-> analysis.den]
        Result(questionAnalysis, totalMarksAvailable, totalMarksAwarded) ==
            [totalQuestions |-> Len(questionAnalysis),
             totalMarksAvailable |-> totalMarksAvailable,
             totalMarksAwarded |-> totalMarksAwarded,
             percentage |-> Percentage(totalMarksAwarded, totalMarksAvailable),
             \* every comparison with NaN is false, which leaves the last band
             grade |-> IF totalMarksAvailable = 0 THEN "F (Fail)"
                       ELSE gradeOf(Percentage(totalMarksAwarded, totalMarksAvailable)),
             questionAnalysis |-> questionAnalysis]
        Totals(questionAnalysis) ==
            Result(questionAnalysis, SumOf(questionAnalysis, "maxMarks"),
                   SumOf(questionAnalysis, "awardedMarks"))
        Analyse(detectedQuestions) ==
            Totals([k \in 1..Len(detectedQuestions) |->
                      Analysed(detectedQuestions[k],
                               analyzeAnswerQuality(detectedQuestions[k].content,
                                                    detectedQuestions[k].topic))])
    IN  Analyse(detectQuestions(content))

NoReport == [status |-> 0]

\* POST /api/local-mark: 400 without documentContent, else the report
localMarkPOST(documentContent) ==
    IF Len(documentContent) = 0 THEN [status |-> 400]
    ELSE [status |-> 200, result |-> generateImprovedMarkingReport(documentContent)]

\* ------------------------------------------------------------------------
\* Documents used as inputs
\* ------------------------------------------------------------------------
Para == <<LETTER, LETTER, LETTER, LETTER>>

RECURSIVE Paras(_)
\* n paragraphs separated by blank lines
Paras(n) == IF n = 1 THEN Para ELSE Paras(n - 1) \o <<NL, NL>> \o Para

\* k copies of the character c
Repeat(c, k) == [j \in 1..k |-> c]

\* k one-letter words separated by single spaces
Words(k) == [j \in 1..(2 * k - 1) |-> IF j % 2 = 1 THEN LETTER ELSE SP]

\* ------------------------------------------------------------------------
\* State
\* ------------------------------------------------------------------------
VARIABLES
    content,      \* chunkDocument: the text handed to the chunker
    maxTokens,    \* chunkDocument: the token budget per chunk
    chunks,       \* chunkDocument: the returned chunk list
    cpc,          \* chunkDocument: "start" before the call, "done" after it
    force,        \* chunkDocument: the loops of the forced split, step by step
    rw,           \* retryWithBackoff: the activation under study
    handlers,     \* markDocument: the activations, by request number
    files,        \* batch advisor: the uploaded files (extractedText.length of each)
    plan,         \* batch advisor: the recommendation shown for files, NoPlan before
    batching,     \* batch advisor: the activation of splitIntoBatches for files and plan
    bp,           \* batch processor: the activation of BatchProcessor.processBatch
    ui,           \* marking interface: the activation of startMarking
    abandoned,    \* marking run: requests the client gave up while they were pending
    text,         \* local marker: the document handed to the segmenter or to the route
    detected,     \* local marker: the units detectQuestions returned for text
    answer,       \* local marker: the content and topic handed to analyzeAnswerQuality
    analysis,     \* local marker: the result of analyzeAnswerQuality for answer
    report        \* local marker: the response of POST /api/local-mark for text

chunkVars == <<content, maxTokens, chunks, cpc, force>>

batchVars == <<files, plan, batching, bp>>

uiVars == <<ui, abandoned>>

localVars == <<text, detected, answer, analysis, report>>

vars == <<content, maxTokens, chunks, cpc, force, rw, handlers, files, plan, batching, bp,
          ui, abandoned, text, detected, answer, analysis, report>>

RECURSIVE Texts(_)
\* all texts of length <= n over the alphabet
Texts(n) ==
    IF n = 0 THEN {<<>>}
    ELSE LET shorter == Texts(n - 1)
         IN  shorter \cup {Append(t, c) : t \in {u \in shorter : Len(u) = n - 1}, c \in Alphabet}

\* ------------------------------------------------------------------------
\* Specification of the chunker: any text, any budget >= 1, one call
\* ------------------------------------------------------------------------
ChunkIdle ==
    /\ content = <<>>
    /\ maxTokens = 1
    /\ chunks = <<>>
    /\ cpc = "idle"
    /\ force = NoForce

RetryIdle == rw = RetryNew(DefaultMaxRetries, DefaultBaseDelay)

MarkIdle == handlers = <<>>

NoPlan == Plan(-1, -1, "none", -1)

BatchIdle == files = <<>> /\ plan = NoPlan /\ batching = NoBatching /\ bp = processBatchNew(0)

UIIdle == ui = StartMarkingNew(<<>>, "local") /\ abandoned = 0

NotDetected == [called |-> FALSE, questions |-> <<>>]

NoAnswer == [content |-> <<>>, topic |-> GeneralTopic]

NoAnalysis == [quality |-> "none", num |-> 0, den |-> ScoreUnit]

LocalIdle ==
    /\ text = <<>>
    /\ detected = NotDetected
    /\ answer = NoAnswer
    /\ analysis = NoAnalysis
    /\ report = NoReport

InitChunk ==
    /\ LocalIdle
    /\ content \in Texts(MaxLen)
    /\ maxTokens \in 1..MaxBudget
    /\ chunks = <<>>
    /\ cpc = "start"
    /\ force = NoForce
    /\ RetryIdle
    /\ MarkIdle
    /\ BatchIdle
    /\ UIIdle

ChunkCall ==
    /\ cpc = "start"
    /\ chunks' = chunkDocument(content, maxTokens)
    /\ cpc' = "done"
    /\ UNCHANGED <<content, maxTokens, force, rw, handlers, batchVars, uiVars, localVars>>

NextChunk == ChunkCall

SpecChunk == InitChunk /\ [][NextChunk]_vars

NonWs(s) == SelectSeq(s, LAMBDA c : ~IsWs(c))

\* C1: every chunk returned by chunkDocument for a budget m >= 1 estimates
\* to at most m tokens, on the ladder path and on the forced-slice path.
ChunkWithinBudget ==
    cpc = "done" => \A k \in 1..Len(chunks) : estimateTokens(chunks[k]) <= maxTokens

\* a call that went through the forced slice and one that used the ladder only
ChunkWithinBudgetWitness ==
    /\ cpc = "done"
    /\ Len(chunks) >= 3
    /\ \E k \in 1..Len(chunks) : Len(chunks[k]) = maxTokens * CharsPerToken
    /\ \E k \in 1..Len(chunks) : Len(chunks[k]) < maxTokens * CharsPerToken

\* C2: the chunks, concatenated in order, carry exactly the non-whitespace
\* characters of the text, in order.
ChunksRoundTrip ==
    cpc = "done" => NonWs(Concat(chunks)) = NonWs(content)

\* C15: chunkDocument on the empty text returns no chunks, whatever the
\* budget.
EmptyTextNoChunks ==
    (cpc = "done" /\ content = <<>>) => chunks = <<>>

\* ------------------------------------------------------------------------
\* Specification of the retry wrapper: any retry budget, any base delay, an
\* operation whose every invocation may settle with any outcome
\* ------------------------------------------------------------------------
BaseDelays == {1000, DefaultBaseDelay}

InitRetry ==
    /\ LocalIdle
    /\ ChunkIdle
    /\ MarkIdle
    /\ BatchIdle
    /\ UIIdle
    /\ \E mr \in 0..MaxRetriesBound, bd \in BaseDelays : rw = RetryNew(mr, bd)

RetryEnter ==
    /\ rw.pc = "start"
    /\ rw' = retryWithBackoffEnter(rw)
    /\ UNCHANGED <<chunkVars, handlers, batchVars, uiVars, localVars>>

RetryFnSettles ==
    /\ rw.pc = "call"
    /\ \E outcome \in Outcomes, jitter \in JitterSet :
          rw' = retryWithBackoffSettle(rw, outcome, jitter)
    /\ UNCHANGED <<chunkVars, handlers, batchVars, uiVars, localVars>>

RetrySleepOver ==
    /\ rw.pc = "sleep"
    /\ rw' = retryWithBackoffResume(rw)
    /\ UNCHANGED <<chunkVars, handlers, batchVars, uiVars, localVars>>

NextRetry == RetryEnter \/ RetryFnSettles \/ RetrySleepOver

SpecRetry == InitRetry /\ [][NextRetry]_vars

\* C23: a run of retryWithBackoff never ends with an error without the
\* wrapped operation having been called at least once, whatever maxRetries.
AttemptedBeforeError == rw.pc = "thrown" => rw.calls >= 1

AllRateLimited(r) == \A k \in 1..Len(r.outcomes) : r.outcomes[k] = "rate"

\* C3: an operation that is rate-limited on every call is invoked exactly
\* maxRetries + 1 times before retryWithBackoff propagates its error.
RateLimitedAttempts ==
    (rw.pc = "thrown" /\ rw.maxRetries >= 1 /\ AllRateLimited(rw)) =>
        (rw.calls = rw.maxRetries + 1 /\ rw.err = "rate")

\* C4: a context_length_exceeded failure ends the run at once, on whichever
\* attempt it occurs, with the distinct too-large error: no further call and
\* no delay follow it.
TooLargeNotRetried ==
    \A k \in 1..Len(rw.outcomes) :
        rw.outcomes[k] = "ctx" =>
            /\ rw.pc = "thrown"
            /\ rw.err = "TooLarge"
            /\ k = Len(rw.outcomes)
            /\ rw.calls = k
            /\ Len(rw.delays) = k - 1

\* a too-large failure on a later attempt, after earlier retries
TooLargeNotRetriedWitness ==
    /\ Len(rw.outcomes) >= 2
    /\ rw.outcomes[Len(rw.outcomes)] = "ctx"
    /\ rw.maxRetries > Len(rw.outcomes)
    /\ rw.pc = "thrown"

\* C18: while every attempt is rate-limited, the delays awaited between the
\* attempts are strictly increasing and none exceeds the cap.
BackoffStrictlyIncreasing ==
    AllRateLimited(rw) =>
        /\ \A k \in 1..Len(rw.delays) : rw.delays[k] <= DelayCap
        /\ \A k \in 2..Len(rw.delays) : rw.delays[k - 1] < rw.delays[k]

\* C19: a plain failure (neither rate-limited nor too large) on the k-th
\* attempt is followed by a delay of exactly baseDelay * k and another
\* attempt while the retry budget lasts; on the last attempt the operation's
\* own error is propagated with no further delay; a success ends the run on
\* the attempt that produced it.
LinearBackoffThenPropagate ==
    \A k \in 1..Len(rw.outcomes) :
        /\ rw.outcomes[k] = "other" =>
              IF k < rw.maxRetries
              THEN /\ Len(rw.delays) >= k
                   /\ rw.delays[k] = rw.baseDelay * k
                   /\ \/ rw.pc = "sleep" /\ k = Len(rw.outcomes) /\ rw.calls = k
                      \/ rw.calls >= k + 1
              ELSE /\ rw.pc = "thrown"
                   /\ rw.err = "other"
                   /\ k = Len(rw.outcomes)
                   /\ rw.calls = k
                   /\ Len(rw.delays) = k - 1
        /\ rw.outcomes[k] = "ok" =>
              /\ rw.pc = "returned"
              /\ k = Len(rw.outcomes)
              /\ rw.calls = k
              /\ Len(rw.delays) = k - 1

\* three plain failures in a row: two linear delays, then the error itself
LinearBackoffThenPropagateWitness ==
    /\ rw.pc = "thrown"
    /\ rw.err = "other"
    /\ rw.maxRetries = 3
    /\ rw.outcomes = <<"other", "other", "other">>
    /\ rw.delays = <<rw.baseDelay, 2 * rw.baseDelay>>

\* ------------------------------------------------------------------------
\* Specification of one markDocument activation: a document of 1..MaxParas
\* paragraphs, a prompt that leaves a content budget of 1 or 2 tokens, and a
\* completion service whose every call may settle with any outcome
\* ------------------------------------------------------------------------
BaseTokenSet == {TokenLimit - 1, TokenLimit - 2}

InitMark ==
    /\ LocalIdle
    /\ ChunkIdle
    /\ RetryIdle
    /\ BatchIdle
    /\ UIIdle
    /\ \E n \in 1..MaxParas, bt \in BaseTokenSet : handlers = <<MarkNew(Paras(n), bt)>>

MarkStart(id) ==
    /\ handlers[id].pc = "start"
    /\ handlers' = [handlers EXCEPT ![id] = markDocument(@)]

CompletionSettles(id) ==
    /\ CallInFlight(handlers[id])
    /\ \E outcome \in Outcomes, jitter \in JitterSet :
          handlers' = [handlers EXCEPT ![id] = OnCompletion(@, outcome, jitter)]

BackoffOver(id) ==
    /\ InBackoff(handlers[id])
    /\ handlers' = [handlers EXCEPT ![id] = OnBackoffOver(@)]

GapOver(id) ==
    /\ handlers[id].pc = "gap"
    /\ handlers' = [handlers EXCEPT ![id] = OnGapOver(@)]

NextMark ==
    \/ MarkStart(1) /\ UNCHANGED <<chunkVars, rw, batchVars, uiVars, localVars>>
    \/ CompletionSettles(1) /\ UNCHANGED <<chunkVars, rw, batchVars, uiVars, localVars>>
    \/ BackoffOver(1) /\ UNCHANGED <<chunkVars, rw, batchVars, uiVars, localVars>>
    \/ GapOver(1) /\ UNCHANGED <<chunkVars, rw, batchVars, uiVars, localVars>>

SpecMark == InitMark /\ [][NextMark]_vars

\* C5: a document that chunks into more than 10 pieces is refused with the
\* size error before any completion call: nothing is submitted and no
\* section is produced.
OversizeRejectedUpFront ==
    \A id \in DOMAIN handlers :
        LET h == handlers[id]
        IN  (h.pc # "start" /\ Len(h.chunks) > MaxChunks) =>
                /\ h.pc = "thrown"
                /\ h.err = "SizeLimit"
                /\ ~h.called
                /\ h.submitted = <<>>
                /\ h.chunkResults = <<>>

OversizeRejectedUpFrontWitness ==
    \E id \in DOMAIN handlers :
        handlers[id].pc = "thrown" /\ Len(handlers[id].chunks) = MaxChunks + 1

\* C6: a chunked document of k <= 10 chunks never ends in an error; when it
\* returns there are exactly k sections, section j at position j, every chunk
\* was submitted once, in index order, and the only completion calls are the
\* ones made for a chunk.
ChunkedAlwaysReturns ==
    \A id \in DOMAIN handlers :
        LET h == handlers[id]
            k == Len(h.chunks)
        IN  (h.pc # "start" /\ k >= 1 /\ k <= MaxChunks) =>
                /\ h.pc # "thrown"
                /\ h.pc = "returned" =>
                      /\ Len(h.chunkResults) = k
                      /\ \A j \in 1..k : h.chunkResults[j].section = j /\ h.chunkResults[j].of = k
                      /\ h.submitted = [j \in 1..k |-> j]
                /\ CallInFlight(h) => (h.pc = "chunk" /\ h.submitted[Len(h.submitted)] = h.i + 1)

\* a returned document with a failed chunk followed by a marked chunk
ChunkedAlwaysReturnsWitness ==
    \E id \in DOMAIN handlers :
        LET h == handlers[id]
        IN  /\ h.pc = "returned"
            /\ Len(h.chunkResults) >= 3
            /\ h.chunkResults[1].status = "error"
            /\ h.chunkResults[2].status = "ok"
            /\ h.chunkResults[Len(h.chunkResults)].status = "error"

\* C26: a document that the size classification does not class as too-large
\* is never refused by markDocument for needing more than 10 chunks, whatever
\* the prompts and the memo estimate to, and is never cut into more chunks
\* than the classification estimates.
ClassifiedProcessable ==
    \A id \in DOMAIN handlers :
        LET h == handlers[id]
            sizeInfo == getDocumentSizeCategory(Len(h.doc))
        IN  (h.pc # "start" /\ sizeInfo.category # "too-large") =>
                /\ h.err # "SizeLimit"
                /\ Len(h.chunks) <= sizeInfo.estimatedChunks

\* C17: before the completion call of every chunk after the first, the
\* inter-chunk delay that follows the previous chunk has been awaited, whether
\* that chunk was marked or failed; no delay follows the last chunk.
InterChunkDelayAlways ==
    \A id \in DOMAIN handlers :
        LET h == handlers[id]
        IN  /\ \A k \in 2..Len(h.submitted) :
                  \E g \in 1..Len(h.gaps) : h.gaps[g] = h.submitted[k] - 1
            /\ \A g \in 1..Len(h.gaps) : h.gaps[g] < Len(h.chunks)

\* ------------------------------------------------------------------------
\* Specification of the batch advisor: files are uploaded one at a time and
\* the recommendation is computed for the current file list
\* ------------------------------------------------------------------------
SmallLength == SmallTokens * CharsPerToken

\* text lengths on both sides of every category boundary
DocLengths ==
    {SmallLength, SmallTokens * CharsPerToken + 1,
     MediumTokens * CharsPerToken, MediumTokens * CharsPerToken + 1,
     LargeTokens * CharsPerToken, LargeTokens * CharsPerToken + 1,
     VeryLargeTokens * CharsPerToken, VeryLargeTokens * CharsPerToken + 1}

InitBatch ==
    /\ LocalIdle
    /\ ChunkIdle
    /\ RetryIdle
    /\ MarkIdle
    /\ UIIdle
    /\ files = <<>>
    /\ plan = NoPlan
    /\ batching = NoBatching
    /\ bp = processBatchNew(0)

Upload ==
    /\ Len(files) < MaxBatch
    /\ \E length \in DocLengths :
          /\ Len(files) >= MaxHeavy => length = SmallLength
          /\ files' = Append(files, length)
    /\ plan' = NoPlan
    /\ UNCHANGED <<chunkVars, rw, handlers, batching, bp, uiVars, localVars>>

Recommend ==
    /\ plan = NoPlan
    /\ plan' = getBatchRecommendation(files)
    /\ UNCHANGED <<chunkVars, rw, handlers, files, batching, bp, uiVars, localVars>>

NextBatch == Upload \/ Recommend

SpecBatch == InitBatch /\ [][NextBatch]_vars

CountCategory(fs, cat) ==
    Cardinality({k \in 1..Len(fs) : getDocumentSizeCategory(fs[k]).category = cat})

\* the decision table, first matching row
TableRow(c, n) ==
    CASE c.tooLargeCount > 0 -> <<0, "high">>
      [] OTHER ->
    CASE c.maxChunksPerDoc > 10 -> <<1, "high">>
      [] OTHER ->
    CASE c.veryLargeCount >= 3 -> <<2, "high">>
      [] OTHER ->
    CASE c.veryLargeCount > 0 -> <<3, "medium">>
      [] OTHER ->
    CASE c.largeCount > 0 /\ c.totalChunks > 30 -> <<3, "medium">>
      [] OTHER ->
    CASE c.largeCount > 0 -> <<5, "low">>
      [] OTHER ->
    CASE n > 20 -> <<10, "medium">>
      [] OTHER ->
    CASE n > 10 -> <<8, "low">>
      [] OTHER -> <<n, "low">>

\* C10: the recommendation is the first row of the decision table that holds
\* on the counters of the file list; 25 small documents give (10, medium)
\* and the empty list gives (0, low).
FirstMatchingRow ==
    plan # NoPlan =>
        LET n == Len(files)
            c == Counters(files)
        IN  /\ c.tooLargeCount = CountCategory(files, "too-large")
            /\ c.veryLargeCount = CountCategory(files, "very-large")
            /\ c.largeCount = CountCategory(files, "large")
            /\ n > 0 => <<plan.recommendedBatchSize, plan.riskLevel>> = TableRow(c, n)
            /\ n = 0 => <<plan.recommendedBatchSize, plan.riskLevel>> = <<0, "low">>
            /\ (n = 25 /\ CountCategory(files, "small") = 25) =>
                  <<plan.recommendedBatchSize, plan.riskLevel>> = <<10, "medium">>

\* 25 small documents with their recommendation
FirstMatchingRowWitness ==
    /\ plan # NoPlan
    /\ Len(files) = 25
    /\ CountCategory(files, "small") = 25
    /\ plan.recommendedBatchSize = 10

\* C20: the totalChunks compared against 30 counts the chunks of the
\* non-small documents only, so one large document with any number of small
\* documents is recommended batch size 5 at low risk.
SmallDocsAddNoChunks ==
    LET RECURSIVE NonSmallChunks(_, _)
        NonSmallChunks(fs, k) ==
            IF k > Len(fs) THEN 0
            ELSE LET sizeInfo == getDocumentSizeCategory(fs[k])
                 IN  (IF sizeInfo.category = "small" THEN 0 ELSE sizeInfo.estimatedChunks)
                     + NonSmallChunks(fs, k + 1)
    IN  (plan # NoPlan /\ CountCategory(files, "too-large") = 0) =>
            /\ Counters(files).totalChunks = NonSmallChunks(files, 1)
            /\ (CountCategory(files, "large") = 1
                   /\ CountCategory(files, "small") = Len(files) - 1) =>
                  <<plan.recommendedBatchSize, plan.riskLevel>> = <<5, "low">>

\* ------------------------------------------------------------------------
\* Specification of the marking interface on its own: 1..MaxFiles files, each
\* of the three loops, every fetch may settle with any outcome and the timer
\* of a file may fire at any moment while it is armed
\* ------------------------------------------------------------------------
InitUI ==
    /\ LocalIdle
    /\ ChunkIdle
    /\ RetryIdle
    /\ MarkIdle
    /\ BatchIdle
    /\ abandoned = 0
    /\ \E n \in 1..MaxFiles, mode \in {"local", "ai", "direct"} :
          ui = StartMarkingNew([f \in 1..n |-> Para], mode)

UIStart ==
    /\ ui.pc = "idle"
    /\ ui' = startMarking(ui)

UIFetchSettles ==
    /\ ui.pc \in {"fetchLocal", "fetchDirect", "fetchAI"}
    /\ \E outcome \in FetchOutcomes :
          /\ FetchAborted(ui) => outcome = "abort"
          /\ outcome = "abort" => FetchAborted(ui)
          /\ ui' = OnFetchSettled(ui, outcome)

UIWaitOver ==
    /\ ui.pc \in {"rateWait", "netWait"}
    /\ ui' = OnWaitOver(ui)

UIFileDelayOver ==
    /\ ui.pc = "fileDelay"
    /\ ui' = OnFileDelayOver(ui)

UITimeout ==
    \E f \in 1..ui.n :
        /\ ui.timers[f] = "armed"
        /\ ui' = OnTimeout(ui, f)

NextUI ==
    \/ UIStart /\ UNCHANGED <<chunkVars, rw, handlers, batchVars, abandoned, localVars>>
    \/ UIFetchSettles /\ UNCHANGED <<chunkVars, rw, handlers, batchVars, abandoned, localVars>>
    \/ UIWaitOver /\ UNCHANGED <<chunkVars, rw, handlers, batchVars, abandoned, localVars>>
    \/ UIFileDelayOver /\ UNCHANGED <<chunkVars, rw, handlers, batchVars, abandoned, localVars>>
    \/ UITimeout /\ UNCHANGED <<chunkVars, rw, handlers, batchVars, abandoned, localVars>>

SpecUI == InitUI /\ [][NextUI]_vars

\* C30: the retry loop of the marking interface awaits no backoff delay after
\* the last permitted attempt of a document, for HTTP 429 as for a network
\* error: every awaited wait follows an attempt before the last one.
NoWaitAfterLastAttempt ==
    \A k \in 1..Len(ui.waits) : ui.waits[k] < ClientMaxRetries

\* C8: the list handed to onMarkingComplete has one entry per file, entry j
\* for file j; a failed file has an error entry at its own position and the
\* files after it are still marked.
OneResultPerFile ==
    /\ \A j \in 1..Len(ui.markingResults) : ui.markingResults[j].file = j
    /\ ui.completed =>
          /\ Len(ui.handed) = ui.n
          /\ \A j \in 1..ui.n : ui.handed[j].file = j

\* a finished run whose first file failed and whose last file was marked
OneResultPerFileWitness ==
    /\ ui.completed
    /\ ui.n >= 2
    /\ ui.handed[1].status = "error"
    /\ ui.handed[ui.n].status = "ok"

\* C9: a request that times out is tried again while retries remain, so a
\* file ends in a timeout error only once its retries are used up.
TimeoutRetried ==
    \A j \in 1..Len(ui.markingResults) :
        ui.markingResults[j].reason = "timeout" =>
            ui.markingResults[j].attempts = ClientMaxRetries + 1

\* ------------------------------------------------------------------------
\* Specification of a marking run in AI mode, client and server together:
\* every fetch that is sent reaches the route, which runs markDocument; the
\* response settles the fetch unless the client gave the request up (abort
\* by the timer, network failure), in which case markDocument runs on
\* ------------------------------------------------------------------------
RunDocs == {Para, Paras(2)}

\* the completion service of this specification answers or fails plainly
RunOutcomes == {"ok", "other"}

SentRequests(u) == SelectSeq(u.requests, LAMBDA r : r.sent)

\* the request whose response the client is waiting for, 0 when there is none
AwaitedId(u) ==
    IF u.pc = "fetchAI" /\ u.requests[Len(u.requests)].sent THEN Len(SentRequests(u)) ELSE 0

\* an activation that is over and whose response nobody waits for is gone
Closed == [MarkNew(<<>>, 0) EXCEPT !.pc = "closed"]

Sweep(hs, u) ==
    [id \in DOMAIN hs |-> IF MarkDone(hs[id]) /\ id # AwaitedId(u) THEN Closed ELSE hs[id]]

InitRun ==
    /\ LocalIdle
    /\ ChunkIdle
    /\ RetryIdle
    /\ BatchIdle
    /\ handlers = <<>>
    /\ abandoned = 0
    /\ \E n \in 1..MaxRunFiles, d \in RunDocs : ui = StartMarkingNew([f \in 1..n |-> d], "ai")

RunStart ==
    /\ UIStart
    /\ UNCHANGED <<handlers, abandoned>>

\* the route receives the next request that was sent
RouteReceives ==
    /\ Len(handlers) < Len(SentRequests(ui))
    /\ LET r == SentRequests(ui)[Len(handlers) + 1]
       IN  handlers' = Append(handlers, MarkNew(ui.docs[r.file], TokenLimit - 1))
    /\ UNCHANGED <<ui, abandoned>>

RouteRuns ==
    \E id \in DOMAIN handlers :
        /\ handlers[id].pc = "start"
        /\ handlers' = Sweep([handlers EXCEPT ![id] = routePOST(@)], ui)
        /\ UNCHANGED <<ui, abandoned>>

ServerCompletion ==
    \E id \in DOMAIN handlers, outcome \in RunOutcomes, jitter \in JitterSet :
        /\ CallInFlight(handlers[id])
        /\ handlers' = Sweep([handlers EXCEPT ![id] = OnCompletion(@, outcome, jitter)], ui)
        /\ UNCHANGED <<ui, abandoned>>

ServerSleepOver ==
    \E id \in DOMAIN handlers :
        /\ \/ InBackoff(handlers[id]) /\ handlers' = Sweep([handlers EXCEPT ![id] = OnBackoffOver(@)], ui)
           \/ handlers[id].pc = "gap" /\ handlers' = Sweep([handlers EXCEPT ![id] = OnGapOver(@)], ui)
        /\ UNCHANGED <<ui, abandoned>>

\* the response of the request the client is waiting for arrives
RunResponse ==
    /\ AwaitedId(ui) \in DOMAIN handlers
    /\ ~FetchAborted(ui)
    /\ MarkDone(handlers[AwaitedId(ui)])
    /\ ui' = OnFetchSettled(ui, IF handlers[AwaitedId(ui)].pc = "returned" THEN "ok" ELSE "httpError")
    /\ handlers' = Sweep(handlers, ui')
    /\ UNCHANGED abandoned

\* the pending fetch is rejected by the abort signal
RunAborted ==
    /\ FetchAborted(ui)
    /\ ui' = OnFetchSettled(ui, "abort")
    /\ handlers' = Sweep(handlers, ui')
    /\ UNCHANGED abandoned

\* the pending fetch is rejected by a network failure
RunNetworkFailure ==
    /\ ui.pc = "fetchAI"
    /\ ~FetchAborted(ui)
    /\ abandoned < MaxFaults
    /\ ui' = OnFetchSettled(ui, "networkError")
    /\ handlers' = Sweep(handlers, ui')
    /\ abandoned' = abandoned + 1

RunTimeout ==
    /\ abandoned < MaxFaults
    /\ UITimeout
    /\ abandoned' = abandoned + 1
    /\ UNCHANGED handlers

RunWaitOver ==
    /\ UIWaitOver
    /\ UNCHANGED <<handlers, abandoned>>

RunFileDelayOver ==
    /\ UIFileDelayOver
    /\ UNCHANGED <<handlers, abandoned>>

NextRun ==
    \/ RunStart /\ UNCHANGED <<chunkVars, rw, batchVars, localVars>>
    \/ RouteReceives /\ UNCHANGED <<chunkVars, rw, batchVars, localVars>>
    \/ RouteRuns /\ UNCHANGED <<chunkVars, rw, batchVars, localVars>>
    \/ ServerCompletion /\ UNCHANGED <<chunkVars, rw, batchVars, localVars>>
    \/ ServerSleepOver /\ UNCHANGED <<chunkVars, rw, batchVars, localVars>>
    \/ RunResponse /\ UNCHANGED <<chunkVars, rw, batchVars, localVars>>
    \/ RunAborted /\ UNCHANGED <<chunkVars, rw, batchVars, localVars>>
    \/ RunNetworkFailure /\ UNCHANGED <<chunkVars, rw, batchVars, localVars>>
    \/ RunTimeout /\ UNCHANGED <<chunkVars, rw, batchVars, localVars>>
    \/ RunWaitOver /\ UNCHANGED <<chunkVars, rw, batchVars, localVars>>
    \/ RunFileDelayOver /\ UNCHANGED <<chunkVars, rw, batchVars, localVars>>

SpecRun == InitRun /\ [][NextRun]_vars

InFlight == {id \in DOMAIN handlers : CallInFlight(handlers[id])}

\* C7: at every moment of a marking run at most one remote completion call
\* is in flight.
OneCallInFlight == Cardinality(InFlight) <= 1

\* ------------------------------------------------------------------------
\* Specification of the segmenter: a document of 1..MaxLines lines, each an
\* optional marker and a body, separated by a newline or a blank line
\* ------------------------------------------------------------------------
SegmentMarkers ==
    {<<>>, <<"1", ".", " ">>, <<"t", "a", "s", "k", " ", "1", ":", " ">>,
     <<"1", ".", " ", "t", "a", "s", "k", " ">>,
     <<"s", "e", "c", "t", "i", "o", "n", " ", "2", ":", " ">>}

SegmentBodies ==
    {Repeat(LETTER, 3), Repeat(LETTER, MinSectionLength), Repeat(LETTER, MinSectionLength + 1)}

RECURSIVE SegmentTexts(_)
\* the documents of exactly n lines
SegmentTexts(n) ==
    LET lines == {m \o b : m \in SegmentMarkers, b \in SegmentBodies}
    IN  IF n = 1 THEN lines
        ELSE {t \o sep \o l : t \in SegmentTexts(n - 1), sep \in {<<NL>>, <<NL, NL>>}, l \in lines}

InitSegment ==
    /\ ChunkIdle
    /\ RetryIdle
    /\ MarkIdle
    /\ BatchIdle
    /\ UIIdle
    /\ text \in UNION {SegmentTexts(n) : n \in 1..MaxLines}
    /\ detected = NotDetected
    /\ answer = NoAnswer
    /\ analysis = NoAnalysis
    /\ report = NoReport

Segment ==
    /\ ~detected.called
    /\ detected' = [called |-> TRUE, questions |-> detectQuestions(text)]
    /\ UNCHANGED <<chunkVars, rw, handlers, batchVars, uiVars, text, answer, analysis, report>>

NextSegment == Segment

SpecSegment == InitSegment /\ [][NextSegment]_vars

\* C11: the units of a document in which units were found cover it: put end
\* to end in order they give back every character of the text that is not
\* white space, the text before the first marker included.
UnitsCoverDocument ==
    (detected.called /\ Len(detected.questions) > 0) =>
        NonWs(Concat([k \in 1..Len(detected.questions) |-> detected.questions[k].content]))
            = NonWs(text)

NoMarkers(s) == \A k \in DOMAIN Patterns : MarkerScan(k, s, 1) = <<>>

\* C12: a text without any marker yields one unit per blank-line-separated
\* paragraph of more than 50 characters, in order, labelled Section 1,
\* Section 2, ...; shorter paragraphs yield nothing and use up no number.
FallbackSections ==
    (detected.called /\ NoMarkers(text)) =>
        LET long == SelectSeq(split("para", text), LAMBDA x : Len(trim(x)) > 50)
        IN  /\ Len(detected.questions) = Len(long)
            /\ \A j \in 1..Len(long) :
                  /\ detected.questions[j].number = [prefix |-> "Section", number |-> <<>>, ordinal |-> j]
                  /\ detected.questions[j].content = trim(long[j])

\* three paragraphs, the middle one too short: Section 1 and Section 2
FallbackSectionsWitness ==
    /\ detected.called
    /\ NoMarkers(text)
    /\ Len(split("para", text)) = 3
    /\ Len(trim(split("para", text)[2])) <= 50
    /\ Len(detected.questions) = 2
    /\ detected.questions[2].number.ordinal = 2

\* the distinct positions (0-based) at which some pattern matches in s
MarkerPositions(s) ==
    {item.index : item \in {Concat([k \in DOMAIN Patterns |-> MarkerScan(k, s, 1)])[j] :
                               j \in 1..Len(Concat([k \in DOMAIN Patterns |-> MarkerScan(k, s, 1)]))}}

\* C21: every distinct marker position yields a unit: the text from it to the
\* next distinct marker position (or the end), when longer than 10 characters
\* trimmed, is the content of a unit, also where two patterns match at once.
DuplicateMarkersMerged ==
    detected.called =>
        \A p \in MarkerPositions(text) :
            LET later == {q \in MarkerPositions(text) : q > p}
                span == trim(SubSeq(text, p + 1, IF later = {} THEN Len(text) ELSE MinOf(later)))
            IN  Len(span) > 10 =>
                  \E k \in 1..Len(detected.questions) : detected.questions[k].content = span

\* C22: the label of a unit names the class of the marker that opened it: a
\* unit that starts with a 'Section N' marker is labelled Section N, one that
\* starts with a 'Task N' marker Task N, and a bare numbered item keeps its
\* number.
LabelsReflectMarkerClass ==
    detected.called =>
        \A k \in 1..Len(detected.questions) :
            LET unit == detected.questions[k]
            IN  /\ WordAt(unit.content, 1, <<"s", "e", "c", "t", "i", "o", "n">>)
                      => (unit.number.prefix = "Section" /\ unit.number.number = <<"2">>)
                /\ WordAt(unit.content, 1, <<"t", "a", "s", "k">>)
                      => (unit.number.prefix = "Task" /\ unit.number.number = <<"1">>)
                /\ WordAt(unit.content, 1, <<"1", ".", " ">>)
                      => (unit.number.prefix = "" /\ unit.number.number = <<"1">>)

\* ------------------------------------------------------------------------
\* Specification of the scorer: an answer is an optional run of the modelled
\* keyword, connective and example word followed by one-letter words, scored
\* against any topic of the table or the general topic
\* ------------------------------------------------------------------------
LexPrefixes ==
    {<<>>, <<"o", "s", " ">>, <<"s", "i", "n", "c", "e", " ">>, <<"i", ".", "e", ".", " ">>,
     <<"o", "s", " ", "s", "i", "n", "c", "e", " ", "i", ".", "e", ".", " ">>}

\* word counts around every threshold of the scorer, whatever the prefix
WordCounts ==
    (0..12) \cup (14..20) \cup (36..40) \cup (76..80) \cup (116..120) \cup {MaxWords - 3, MaxWords}

ScoreTopics == {TOPIC_KEYWORDS[t].topic : t \in DOMAIN TOPIC_KEYWORDS} \cup {GeneralTopic}

InitScore ==
    /\ ChunkIdle
    /\ RetryIdle
    /\ MarkIdle
    /\ BatchIdle
    /\ UIIdle
    /\ text = <<>>
    /\ detected = NotDetected
    /\ \E prefix \in LexPrefixes, k \in WordCounts, topic \in ScoreTopics :
          answer = [content |-> prefix \o Words(k), topic |-> topic]
    /\ analysis = NoAnalysis
    /\ report = NoReport

Score ==
    /\ analysis = NoAnalysis
    /\ analysis' = analyzeAnswerQuality(answer.content, answer.topic)
    /\ UNCHANGED <<chunkVars, rw, handlers, batchVars, uiVars, text, detected, answer, report>>

NextScore == Score

SpecScore == InitScore /\ [][NextScore]_vars

UnitsNeverMissing ==
    (analysis # NoAnalysis /\ answer.content = trim(answer.content)
        /\ Len(answer.content) > MinContentLength) =>
        /\ analysis.num * 100 >= 40 * analysis.den
        /\ analysis.quality # "missing"
        /\ (2 * estimateMarksFromContent(answer.content) * analysis.num + analysis.den)
              \div (2 * analysis.den) >= 1

\* the lowest score: under 10 words and none of the topic's keywords,
\* 0.85 * 0.65 * 0.75, quality 'poor', 1 mark of 2
UnitsNeverMissingWitness ==
    /\ analysis # NoAnalysis
    /\ answer.content = trim(answer.content)
    /\ Len(answer.content) > MinContentLength
    /\ analysis.num = 85 * 65 * 75 * (analysis.den \div ScoreUnit)
    /\ analysis.quality = "poor"
    /\ (2 * estimateMarksFromContent(answer.content) * analysis.num + analysis.den)
          \div (2 * analysis.den) = 1

\* ------------------------------------------------------------------------
\* Specification of local marking: a document grows by one numbered answer
\* at a time (a stub, a nine-letter word, or twenty words) and is posted to
\* /api/local-mark
\* ------------------------------------------------------------------------
AnswerMarker == <<"1", ".", " ">>

ShortAnswer == AnswerMarker \o Repeat(LETTER, 9) \o <<NL>>

AnswerLines ==
    {AnswerMarker \o Repeat(LETTER, 3) \o <<NL>>, ShortAnswer, AnswerMarker \o Words(20) \o <<NL>>}

\* the number of answers of a document
Answers(s) == Cardinality({j \in 1..Len(s) : s[j] = NL})

InitReport ==
    /\ ChunkIdle
    /\ RetryIdle
    /\ MarkIdle
    /\ BatchIdle
    /\ UIIdle
    /\ text = <<>>
    /\ detected = NotDetected
    /\ answer = NoAnswer
    /\ analysis = NoAnalysis
    /\ report = NoReport

WriteAnswer ==
    /\ report = NoReport
    /\ Answers(text) < MaxAnswers
    /\ \E line \in AnswerLines :
          /\ Answers(text) >= MaxVaried => line = ShortAnswer
          /\ text' = text \o line
    /\ UNCHANGED <<chunkVars, rw, handlers, batchVars, uiVars, detected, answer, analysis, report>>

LocalMark ==
    /\ report = NoReport
    /\ report' = localMarkPOST(text)
    /\ UNCHANGED <<chunkVars, rw, handlers, batchVars, uiVars, text, detected, answer, analysis>>

NextReport == WriteAnswer \/ LocalMark

SpecReport == InitReport /\ [][NextReport]_vars

\* C14: in a local result with marks available, every unit is awarded
\* round(maxMarks * score) <= maxMarks, the percentage is
\* round(100 * awarded / available), within 0..100, and the grade follows the
\* bands 90 / 80 / 70 / 60 / 50; 75 of 100 is 75 per cent, 'B (Good)'.
LocalPercentageAndGrade ==
    (report.status = 200 /\ report.result.totalMarksAvailable > 0) =>
        LET r == report.result
            qs == r.questionAnalysis
        IN  /\ \A k \in 1..Len(qs) :
                  /\ qs[k].awardedMarks = (2 * qs[k].maxMarks * qs[k].num + qs[k].den) \div (2 * qs[k].den)
                  /\ qs[k].awardedMarks <= qs[k].maxMarks
            /\ r.percentage = (200 * r.totalMarksAwarded + r.totalMarksAvailable)
                                  \div (2 * r.totalMarksAvailable)
            /\ r.percentage \in 0..100
            /\ r.grade = CASE r.percentage >= 90 -> "A+ (Outstanding)"
                            [] r.percentage \in 80..89 -> "A (Excellent)"
                            [] r.percentage \in 70..79 -> "B (Good)"
                            [] r.percentage \in 60..69 -> "C (Satisfactory)"
                            [] r.percentage \in 50..59 -> "D (Pass)"
                            [] OTHER -> "F (Fail)"
            /\ Percentage(75, 100) = 75
            /\ gradeOf(75) = "B (Good)"

LetterGrades ==
    {"A+ (Outstanding)", "A (Excellent)", "B (Good)", "C (Satisfactory)", "D (Pass)", "F (Fail)"}

\* C16: a local result with no marks available reports no numeric
\* percentage and no letter grade.
NoMarksNoGrade ==
    (report.status = 200 /\ report.result.totalMarksAvailable = 0) =>
        /\ report.result.percentage = NaN
        /\ report.result.grade \notin LetterGrades

\* C29: the row 'maxChunksPerDoc > 10: batch size 1, high risk' is never the
\* selected one: no document that counts has more than 5 estimated chunks.
ExtremeRowNeverSelected ==
    plan # NoPlan =>
        /\ Counters(files).maxChunksPerDoc <= 5
        /\ <<plan.recommendedBatchSize, plan.riskLevel>> # <<1, "high">>

\* a very large document of 5 estimated chunks next to a too-large one
ExtremeRowNeverSelectedWitness ==
    /\ plan # NoPlan
    /\ Counters(files).maxChunksPerDoc = 5
    /\ CountCategory(files, "too-large") = 1
    /\ CountCategory(files, "very-large") = 1

\* ------------------------------------------------------------------------
\* Specification of batching: files are uploaded, the recommendation is
\* computed, and splitIntoBatches is run on the files with the recommended
\* batch size, one round of its loop at a time (a run is followed for at
\* most MaxBatch rounds)
\* ------------------------------------------------------------------------
SplitEnter ==
    /\ plan # NoPlan
    /\ batching.pc = "idle"
    /\ batching' = [NoBatching EXCEPT !.pc = "loop"]
    /\ UNCHANGED <<chunkVars, rw, handlers, files, plan, bp, uiVars, localVars>>

SplitRound ==
    /\ batching.pc = "loop"
    /\ Len(batching.batches) < MaxBatch
    /\ batching' = splitIntoBatchesRound(batching, files, plan.recommendedBatchSize)
    /\ UNCHANGED <<chunkVars, rw, handlers, files, plan, bp, uiVars, localVars>>

NextSplit == (Upload /\ batching.pc = "idle") \/ Recommend \/ SplitEnter \/ SplitRound

SpecSplit == InitBatch /\ [][NextSplit]_vars

\* C25: splitIntoBatches ends for every batch size the recommendation can
\* hold for the files: every round that pushes a batch moves the loop
\* variable forward.
SplitAdvances ==
    [][(SplitRound /\ Len(batching'.batches) > Len(batching.batches))
          => batching'.i > batching.i]_vars

\* for the batch sizes with which it returns, the batches hold at most that
\* many files each and give back the files in order
SplitPartitions ==
    batching.pc = "returned" =>
        /\ Concat(batching.batches) = files
        /\ \A k \in 1..Len(batching.batches) :
              Len(batching.batches[k]) <= plan.recommendedBatchSize

\* ------------------------------------------------------------------------
\* Specification of the batch processor: one processBatch over 1..MaxFiles
\* files; every call to the marker or to the persistence collaborator
\* resolves or rejects
\* ------------------------------------------------------------------------
InitProcess ==
    /\ LocalIdle
    /\ ChunkIdle
    /\ RetryIdle
    /\ MarkIdle
    /\ UIIdle
    /\ files = <<>>
    /\ plan = NoPlan
    /\ batching = NoBatching
    /\ \E n \in 1..MaxFiles : bp = processBatchNew(n)

ProcessStart ==
    /\ bp.pc = "start"
    /\ bp' = [bp EXCEPT !.pc = "createBatchJob"]
    /\ UNCHANGED <<chunkVars, rw, handlers, files, plan, batching, uiVars, localVars>>

ProcessSettles ==
    /\ bp.pc \notin {"start", "returned", "thrown"}
    /\ \E outcome \in {"ok", "failed"} : bp' = processBatchSettle(bp, outcome)
    /\ UNCHANGED <<chunkVars, rw, handlers, files, plan, batching, uiVars, localVars>>

NextProcess == ProcessStart \/ ProcessSettles

SpecProcess == InitProcess /\ [][NextProcess]_vars

\* C27: when processBatch completes, every file has its result in the
\* marking results or an entry in progress.errors, never both and never
\* neither: results plus per-file errors equal totalFiles.
OneOutcomePerFile ==
    bp.pc = "returned" =>
        LET marked == {bp.markingResults[k] : k \in 1..Len(bp.markingResults)}
            failed == {bp.errors[k] : k \in 1..Len(bp.errors)} \ {0}
        IN  /\ marked \cap failed = {}
            /\ marked \cup failed = 1..bp.totalFiles
            /\ Len(bp.markingResults) + Cardinality({k \in 1..Len(bp.errors) : bp.errors[k] # 0})
                  = bp.totalFiles

\* ------------------------------------------------------------------------
\* Specification of the forced split: chunkDocument with the budget
\* 8000 - baseTokens that markDocument passes, which is 0 or less once the
\* prompts and the memo estimate to 8000 tokens or more; the loops of the
\* forced split are followed one round at a time
\* ------------------------------------------------------------------------
InitForce ==
    /\ LocalIdle
    /\ content \in Texts(MaxForceLen)
    /\ \E baseTokens \in (TokenLimit - MaxBudget)..(TokenLimit + MaxDeficit) :
          maxTokens = TokenLimit - baseTokens
    /\ chunks = <<>>
    /\ cpc = "start"
    /\ force = NoForce
    /\ RetryIdle
    /\ MarkIdle
    /\ BatchIdle
    /\ UIIdle

ForceEnter ==
    /\ cpc = "start"
    /\ LET r == chunkDocumentEnter(content, maxTokens)
       IN  IF r.returned
           THEN chunks' = r.chunks /\ cpc' = "done" /\ force' = force
           ELSE chunks' = chunks /\ cpc' = "force" /\ force' = ForceNew(r.chunks)
    /\ UNCHANGED <<content, maxTokens, rw, handlers, batchVars, uiVars, localVars>>

ForceNextChunk ==
    /\ cpc = "force"
    /\ ~force.inner
    /\ force.k <= Len(force.source)
    /\ force' = ForceRound(force, maxTokens * CharsPerToken)
    /\ UNCHANGED <<content, maxTokens, chunks, cpc, rw, handlers, batchVars, uiVars, localVars>>

ForceNextSlice ==
    /\ cpc = "force"
    /\ force.inner
    /\ Len(force.forcedChunks) < MaxSlices
    /\ force' = ForceSlice(force, maxTokens * CharsPerToken)
    /\ UNCHANGED <<content, maxTokens, chunks, cpc, rw, handlers, batchVars, uiVars, localVars>>

ForceReturn ==
    /\ cpc = "force"
    /\ ~force.inner
    /\ force.k > Len(force.source)
    /\ chunks' = force.forcedChunks
    /\ cpc' = "done"
    /\ UNCHANGED <<content, maxTokens, force, rw, handlers, batchVars, uiVars, localVars>>

NextForce == ForceEnter \/ ForceNextChunk \/ ForceNextSlice \/ ForceReturn

SpecForce == InitForce /\ [][NextForce]_vars

\* C24: the loop that slices an oversized chunk always advances: every round
\* that pushes a slice moves the offset forward, for every budget markDocument
\* can pass, so the loop ends after at most chunk.length rounds.
ForcedSliceAdvances ==
    [][(ForceNextSlice /\ Len(force'.forcedChunks) > Len(force.forcedChunks))
          => force'.i > force.i]_vars

\* the step-by-step forced split returns what chunkDocument returns
ForceAgrees ==
    (cpc = "done" /\ maxTokens >= 1) => chunks = chunkDocument(content, maxTokens)

====
